---- MODULE Spec2Model ----
(***************************************************************************)
(* A model of RainEagle/EagleClass.py: the Eagle client class (constructor *)
(* and one method per device command), the request builder                 *)
(* _send_http_comm, the numeric helpers _tohex and _twos_comp, and the     *)
(* conversion _et2d of an element tree to a dict.                          *)
(*                                                                         *)
(* Python values.  Text parameters (addr, macid, period, ...) are TLA+     *)
(* strings, with the value None standing for Python's None.  Parameters    *)
(* whose Python type matters (id, price) are tagged records.  Python ints  *)
(* are unbounded; an int is kept as two limbs, value = hi * 65536 + lo     *)
(* with 0 <= lo < 65536, so that 2^32 and the values around it are exact.  *)
(***************************************************************************)
EXTENDS Integers, Sequences, FiniteSets, TLC

VARIABLES self, state, ncalls, last, warnings, hexio, etio

vars == <<self, state, ncalls, last, warnings, hexio, etio>>

(***************************************************************************)
(* Bounds of the model.                                                    *)
(***************************************************************************)
\* the methods of the client, the constructor first, are called at most
\* this many times in one behaviour: a command leaves the client as it
\* found it, so the calls after the first command meet no new client
MaxCalls == 2
\* the integer samples lie within this distance of each boundary value
HexSpread == 2
\* the root element given to _et2d has at most this many children
MaxChildren == 3

(***************************************************************************)
(* Python values                                                           *)
(***************************************************************************)
None == "<None>"

\* str(v), the "{0!s}" conversion of a text value
Str(v) == IF v = None THEN "None" ELSE v

\* truth value of a text value: None and the empty string are false
Truthy(v) == v # None /\ v # ""

PyNone == [t |-> "NoneType"]
PyStr(s) == [t |-> "str", s |-> s]
PyInt(hi, lo) == [t |-> "int", hi |-> hi, lo |-> lo]

RECURSIVE Pow2(_)
Pow2(k) == IF k = 0 THEN 1 ELSE 2 * Pow2(k - 1)

\* the base of the limbs of an int
Limb == Pow2(16)

\* the int with a value small enough to be written directly
SmallInt(k) == PyInt(k \div Limb, k % Limb)

(***************************************************************************)
(* Hexadecimal text                                                        *)
(***************************************************************************)
HexChars == "0123456789abcdef"
HexCharsUpper == "0123456789ABCDEF"

CharAt(s, i) == SubSeq(s, i, i)

HexChar(d) == CharAt(HexChars, d + 1)

HexVal(c) ==
    CHOOSE d \in 0..15 : c = CharAt(HexChars, d + 1) \/ c = CharAt(HexCharsUpper, d + 1)

StartsWith(s, p) == Len(s) >= Len(p) /\ SubSeq(s, 1, Len(p)) = p

RECURSIVE Zeros(_)
Zeros(k) == IF k <= 0 THEN "" ELSE "0" \o Zeros(k - 1)

\* the digits of format(n, "x") for a natural number below 2^31
RECURSIVE NatHex(_)
NatHex(n) == IF n < 16 THEN HexChar(n) ELSE NatHex(n \div 16) \o HexChar(n % 16)

\* the digits of format(i, "x") for a non-negative int in limbs
LimbHex(hi, lo) ==
    IF hi = 0 THEN NatHex(lo)
    ELSE NatHex(hi) \o Zeros(4 - Len(NatHex(lo))) \o NatHex(lo)

\* "{:#0{width}x}".format(i, width): sign, "0x", zeros up to the width, digits
FormatHex(hi, lo, width) ==
    IF hi >= 0
    THEN LET digits == LimbHex(hi, lo)
         IN  "0x" \o Zeros(width - 2 - Len(digits)) \o digits
    ELSE LET nhi == IF lo = 0 THEN -hi ELSE -hi - 1
             nlo == IF lo = 0 THEN 0 ELSE Limb - lo
             digits == LimbHex(nhi, nlo)
         IN  "-0x" \o Zeros(width - 3 - Len(digits)) \o digits

\* the value of the hex digits of s from position i on, in limbs
RECURSIVE ParseHexFrom(_, _, _, _)
ParseHexFrom(s, i, hi, lo) ==
    IF i > Len(s) THEN PyInt(hi, lo)
    ELSE LET v == lo * 16 + HexVal(CharAt(s, i))
         IN  ParseHexFrom(s, i + 1, hi * 16 + v \div Limb, v % Limb)

\* int(s, 16) of a string of hex digits with the prefix "0x" or "-0x"
ParseHex(s) ==
    IF StartsWith(s, "-")
    THEN LET v == ParseHexFrom(s, 4, 0, 0)
         IN  IF v.lo = 0 THEN PyInt(-v.hi, 0) ELSE PyInt(-v.hi - 1, Limb - v.lo)
    ELSE ParseHexFrom(s, 3, 0, 0)

\* int(s) of a string of decimal digits
IsDigit(c) == \E d \in 0..9 : c = HexChar(d)
DigitVal(c) == CHOOSE d \in 0..9 : c = HexChar(d)
AllDigits(s) == Len(s) > 0 /\ \A i \in 1..Len(s) : IsDigit(CharAt(s, i))

RECURSIVE ParseDecFrom(_, _, _)
ParseDecFrom(s, i, acc) ==
    IF i > Len(s) THEN acc ELSE ParseDecFrom(s, i + 1, acc * 10 + DigitVal(CharAt(s, i)))

ParseDec(s) == ParseDecFrom(s, 1, 0)

(***************************************************************************)
(* _twos_comp and _tohex                                                   *)
(***************************************************************************)
\* _twos_comp(val, bits): val - (1 << bits) when bit (bits - 1) of val is set
_twos_comp(val, bits) ==
    IF bits > 16
    THEN IF (val.hi \div Pow2(bits - 17)) % 2 # 0
         THEN PyInt(val.hi - Pow2(bits - 16), val.lo)
         ELSE val
    ELSE IF (val.lo \div Pow2(bits - 1)) % 2 # 0
         THEN IF val.lo >= Pow2(bits)
              THEN PyInt(val.hi, val.lo - Pow2(bits))
              ELSE PyInt(val.hi - 1, val.lo + Limb - Pow2(bits))
         ELSE val

\* _tohex with the 2^32 added to zero as well as to the negative numbers
ToHexShiftingZero(n, width) ==
    IF n.t = "str" /\ StartsWith(n.s, "0x")
    THEN [ret |-> n.s, err |-> "", warned |-> FALSE]
    ELSE IF n.t = "NoneType"
    THEN [ret |-> None, err |-> "TypeError", warned |-> FALSE]
    ELSE IF n.t = "str" /\ ~AllDigits(n.s)
    THEN [ret |-> None, err |-> "ValueError", warned |-> FALSE]
    ELSE LET i == IF n.t = "str" THEN SmallInt(ParseDec(n.s)) ELSE n
             w == width + 2
             adj == IF i.hi < 0 \/ (i.hi = 0 /\ i.lo = 0)
                    THEN PyInt(i.hi + Limb, i.lo) ELSE i
         IN  [ret |-> FormatHex(adj.hi, adj.lo, w),
              err |-> "",
              warned |-> (i.hi > 32767 \/ i.hi < -32768)]

\* _tohex(n, width): ret is the string returned, err the exception raised,
\* warned whether the out-of-range RuntimeWarning was issued
_tohex(n, width) ==
    IF n.t = "str" /\ StartsWith(n.s, "0x")
    THEN [ret |-> n.s, err |-> "", warned |-> FALSE]
    ELSE IF n.t = "NoneType"
    THEN [ret |-> None, err |-> "TypeError", warned |-> FALSE]
    ELSE IF n.t = "str" /\ ~AllDigits(n.s)
    THEN [ret |-> None, err |-> "ValueError", warned |-> FALSE]
    ELSE LET i == IF n.t = "str" THEN SmallInt(ParseDec(n.s)) ELSE n
             w == width + 2
             adj == IF i.hi < 0 THEN PyInt(i.hi + Limb, i.lo) ELSE i
         IN  [ret |-> FormatHex(adj.hi, adj.lo, w),
              err |-> "",
              warned |-> (i.hi > 32767 \/ i.hi < -32768)]

(***************************************************************************)
(* JSON pages and json.loads                                               *)
(*                                                                         *)
(* A page is the text read from the device; it is kept by what json.loads  *)
(* makes of it: valid or not, and the decoded value.  A decoded object is  *)
(* a function from its keys to text values.                                *)
(***************************************************************************)
NoMap == [k \in {} |-> ""]
PyNoneVal == [t |-> "NoneType", o |-> NoMap]
PyDict(o) == [t |-> "dict", o |-> o]

Page(valid, value) == [t |-> "str", valid |-> valid, value |-> value]

\* json.loads(x): TypeError unless x is text, JSONDecodeError (a ValueError)
\* when the text is not JSON
json_loads(x) ==
    IF x.t # "str" THEN [ret |-> PyNoneVal, err |-> "TypeError"]
    ELSE IF ~x.valid THEN [ret |-> PyNoneVal, err |-> "ValueError"]
    ELSE [ret |-> x.value, err |-> ""]

\* d[key] of a decoded value
GetItem(d, key) ==
    IF d.t # "dict" THEN [ret |-> None, err |-> "TypeError"]
    ELSE IF key \notin DOMAIN d.o THEN [ret |-> None, err |-> "KeyError"]
    ELSE [ret |-> d.o[key], err |-> ""]

(***************************************************************************)
(* distutils.version.LooseVersion                                          *)
(***************************************************************************)
min_fw_ver == "2.0.21"

LowerChars == "abcdefghijklmnopqrstuvwxyz"
IsLower(c) == \E i \in 1..Len(LowerChars) : c = CharAt(LowerChars, i)

\* the characters of the samples, in code point order
CharOrder == "-.0123456789ABCDEFGHIJKLMNOPQRSTUVWXYZ_abcdefghijklmnopqrstuvwxyz"
CharOrd(c) == CHOOSE i \in 1..Len(CharOrder) : c = CharAt(CharOrder, i)

CharClass(c) == IF IsDigit(c) THEN "digits" ELSE IF IsLower(c) THEN "letters" ELSE "other"

\* one component: int(x) when x is a number, else x
Component(x) ==
    IF AllDigits(x) THEN [num |-> TRUE, n |-> ParseDec(x), s |-> ""]
    ELSE [num |-> FALSE, n |-> 0, s |-> x]

\* LooseVersion.parse: split at runs of digits, runs of letters and dots; drop the dots
RECURSIVE VersionComponents(_, _, _, _)
VersionComponents(v, i, cur, acc) ==
    LET flushed == IF cur = "" THEN acc ELSE Append(acc, Component(cur))
    IN  IF i > Len(v) THEN flushed
        ELSE LET c == CharAt(v, i)
             IN  IF c = "." THEN VersionComponents(v, i + 1, "", flushed)
                 ELSE IF cur = "" \/ CharClass(c) = CharClass(CharAt(cur, 1))
                 THEN VersionComponents(v, i + 1, cur \o c, acc)
                 ELSE VersionComponents(v, i + 1, c, flushed)

ParseVersion(v) == VersionComponents(v, 1, "", <<>>)

RECURSIVE StrLessFrom(_, _, _)
StrLessFrom(a, b, i) ==
    IF i > Len(a) \/ i > Len(b) THEN Len(a) < Len(b)
    ELSE IF CharAt(a, i) = CharAt(b, i) THEN StrLessFrom(a, b, i + 1)
    ELSE CharOrd(CharAt(a, i)) < CharOrd(CharAt(b, i))

\* list < list: the first pair of unequal components decides; an int and a
\* str do not compare (TypeError)
RECURSIVE ListLess(_, _, _)
ListLess(a, b, i) ==
    IF i > Len(a) \/ i > Len(b)
    THEN [ret |-> Len(a) < Len(b), err |-> ""]
    ELSE IF a[i].num # b[i].num THEN [ret |-> FALSE, err |-> "TypeError"]
    ELSE IF a[i].num
    THEN IF a[i].n = b[i].n THEN ListLess(a, b, i + 1)
         ELSE [ret |-> a[i].n < b[i].n, err |-> ""]
    ELSE IF a[i].s = b[i].s THEN ListLess(a, b, i + 1)
         ELSE [ret |-> StrLessFrom(a[i].s, b[i].s, 1), err |-> ""]

\* LooseVersion(a) < LooseVersion(b); an empty string leaves the version
\* unparsed, and the comparison fails with AttributeError
LooseVersionLess(a, b) ==
    IF a = None \/ b = None \/ a = "" \/ b = ""
    THEN [ret |-> FALSE, err |-> "AttributeError"]
    ELSE ListLess(ParseVersion(a), ParseVersion(b), 1)

(***************************************************************************)
(* The transport: urlopen(req), then response.read()                       *)
(*                                                                         *)
(* A response is what one invocation of urlopen does: it raises URLError   *)
(* (unreachable address, timeout) or it delivers a page.                   *)
(***************************************************************************)
DeviceMacId == "0xd8d5b9000000abcd"

FwVersions ==
    {"1.0.0", "2.0.20", "2.0.21", "2.0.22", "2.0", "2.1", "10.0.0",
     "2.0.21rc", "2.0.rc1", ""}

\* the first device of a device list: an identifier, the empty string, null
DeviceMacIds == {DeviceMacId, "", None}

Pages ==
    {Page(FALSE, PyNoneVal), Page(TRUE, PyNoneVal), Page(TRUE, [t |-> "list", o |-> NoMap]),
     Page(TRUE, PyDict(NoMap))}
    \cup {Page(TRUE, PyDict([k \in {"device_mac_id[0]"} |-> v])) : v \in DeviceMacIds}
    \cup {Page(TRUE, PyDict([k \in {"device_fw_version"} |-> v])) : v \in FwVersions}

Responses ==
    {[kind |-> "URLError", page |-> Page(FALSE, PyNoneVal)]}
    \cup {[kind |-> "page", page |-> pg] : pg \in Pages}

(***************************************************************************)
(* The outcome of a method call: the client object after the call, the     *)
(* value returned or the exception raised, the request bodies built, the   *)
(* bodies handed to urlopen, what urlopen answered to each body it took,   *)
(* the bodies printed, the warnings issued.                                *)
(***************************************************************************)
Return(slf, ret) ==
    [self |-> slf, ret |-> ret, err |-> "", built |-> <<>>, sent |-> <<>>,
     got |-> <<>>, printed |-> <<>>, warned |-> {}]

Raise(slf, err) ==
    [self |-> slf, ret |-> PyNoneVal, err |-> err, built |-> <<>>, sent |-> <<>>,
     got |-> <<>>, printed |-> <<>>, warned |-> {}]

\* the outcome of a call r made after the calls of outcome q
After(q, r) ==
    [r EXCEPT !.built = q.built \o r.built, !.sent = q.sent \o r.sent,
              !.got = q.got \o r.got,
              !.printed = q.printed \o r.printed, !.warned = q.warned \cup r.warned]

Element(tag, text) == [tag |-> tag, text |-> text]

\* _send_http_comm without the interception of set_cloud: the body of
\* every command goes to urlopen
SendWithoutInterception(slf, cmd, MacId, kwargs, resp) ==
    LET commstr ==
            [tag |-> "LocalCommand",
             children |->
                 <<Element("Name", Str(cmd)),
                   Element("MacId", Str(IF Truthy(MacId) THEN MacId ELSE slf.macid))>>
                 \o [i \in 1..Len(kwargs) |-> Element(kwargs[i][1], Str(kwargs[i][2]))]]
        debugged == IF slf.debug THEN <<commstr>> ELSE <<>>
        out == [self |-> slf, ret |-> PyNoneVal, err |-> "", built |-> <<commstr>>,
                sent |-> <<>>, got |-> <<>>, printed |-> debugged, warned |-> {}]
    IN  IF slf.username # None /\ slf.password = None
        THEN [out EXCEPT !.err = "TypeError"]
        ELSE IF slf.username = None
        THEN [out EXCEPT !.err = "TypeError", !.sent = <<commstr>>]
        ELSE IF resp.kind = "URLError"
        THEN [out EXCEPT !.err = "URLError", !.sent = <<commstr>>, !.got = <<resp>>]
        ELSE [out EXCEPT !.ret = resp.page, !.sent = <<commstr>>, !.got = <<resp>>]

\* _send_http_comm keeping the MacId of the call as the client's own
SendStoringMacId(slf, cmd, MacId, kwargs, resp) ==
    LET kept == [slf EXCEPT !.macid = IF Truthy(MacId) THEN MacId ELSE slf.macid]
        commstr ==
            [tag |-> "LocalCommand",
             children |->
                 <<Element("Name", Str(cmd)), Element("MacId", Str(kept.macid))>>
                 \o [i \in 1..Len(kwargs) |-> Element(kwargs[i][1], Str(kwargs[i][2]))]]
        debugged == IF slf.debug THEN <<commstr>> ELSE <<>>
        out == [self |-> kept, ret |-> PyNoneVal, err |-> "", built |-> <<commstr>>,
                sent |-> <<>>, got |-> <<>>, printed |-> debugged, warned |-> {}]
    IN  IF cmd = "set_cloud"
        THEN [out EXCEPT !.ret = PyDict(NoMap), !.printed = <<commstr>>]
        ELSE IF slf.username # None /\ slf.password = None
        THEN [out EXCEPT !.err = "TypeError"]
        ELSE IF slf.username = None
        THEN [out EXCEPT !.err = "TypeError", !.sent = <<commstr>>]
        ELSE IF resp.kind = "URLError"
        THEN [out EXCEPT !.err = "URLError", !.sent = <<commstr>>, !.got = <<resp>>]
        ELSE [out EXCEPT !.ret = resp.page, !.sent = <<commstr>>, !.got = <<resp>>]

\* Eagle._send_http_comm(cmd, MacId, **kwargs); kwargs is the sequence of
\* the <<name, value>> pairs in the order of the call
_send_http_comm(slf, cmd, MacId, kwargs, resp) ==
    LET commstr ==
            [tag |-> "LocalCommand",
             children |->
                 <<Element("Name", Str(cmd)),
                   Element("MacId", Str(IF Truthy(MacId) THEN MacId ELSE slf.macid))>>
                 \o [i \in 1..Len(kwargs) |-> Element(kwargs[i][1], Str(kwargs[i][2]))]]
        debugged == IF slf.debug THEN <<commstr>> ELSE <<>>
        out == [self |-> slf, ret |-> PyNoneVal, err |-> "", built |-> <<commstr>>,
                sent |-> <<>>, got |-> <<>>, printed |-> debugged, warned |-> {}]
    IN  IF cmd = "set_cloud"
        THEN [out EXCEPT !.ret = PyDict(NoMap), !.printed = <<commstr>>]
        ELSE IF slf.username # None /\ slf.password = None
        THEN \* self.username + ":" + self.password
             [out EXCEPT !.err = "TypeError"]
        ELSE IF slf.username = None
        THEN \* the body is a str: urlopen refuses it
             [out EXCEPT !.err = "TypeError", !.sent = <<commstr>>]
        ELSE IF resp.kind = "URLError"
        THEN [out EXCEPT !.err = "URLError", !.sent = <<commstr>>, !.got = <<resp>>]
        ELSE [out EXCEPT !.ret = resp.page, !.sent = <<commstr>>, !.got = <<resp>>]

\* the shape of every command method:
\*   comm_responce = self._send_http_comm(...); return json.loads(comm_responce)
Loads(r) ==
    IF r.err # "" THEN r
    ELSE LET j == json_loads(r.ret) IN [r EXCEPT !.ret = j.ret, !.err = j.err]

get_device_list(slf, macid, resp) ==
    Loads(_send_http_comm(slf, "get_device_list", macid, <<>>, resp))

get_uploaders(slf, macid, resp) ==
    Loads(_send_http_comm(slf, "get_uploaders", macid, <<>>, resp))

get_uploader(slf, macid, resp) ==
    Loads(_send_http_comm(slf, "get_uploader", macid, <<>>, resp))

set_message_read(slf, macid, resp) ==
    Loads(_send_http_comm(slf, "set_message_read", macid, <<>>, resp))

get_message(slf, macid, resp) ==
    Loads(_send_http_comm(slf, "get_message", macid, <<>>, resp))

get_usage_data(slf, macid, resp) ==
    Loads(_send_http_comm(slf, "get_usage_data", macid, <<>>, resp))

get_setting_data(slf, macid, resp) ==
    Loads(_send_http_comm(slf, "get_setting_data", macid, <<>>, resp))

get_device_config(slf, macid, resp) ==
    Loads(_send_http_comm(slf, "get_device_config", macid, <<>>, resp))

get_gateway_info(slf, macid, resp) ==
    Loads(_send_http_comm(slf, "get_gateway_info", macid, <<>>, resp))

get_timezone(slf, macid, resp) ==
    Loads(_send_http_comm(slf, "get_timezone", macid, <<>>, resp))

get_time_source(slf, macid, resp) ==
    Loads(_send_http_comm(slf, "get_time_source", macid, <<>>, resp))

get_price(slf, macid, resp) ==
    Loads(_send_http_comm(slf, "get_price", macid, <<>>, resp))

factory_reset(slf, macid, resp) ==
    Loads(_send_http_comm(slf, "factory_reset", macid, <<>>, resp))

cloud_reset(slf, macid, resp) ==
    Loads(_send_http_comm(slf, "cloud_reset", macid, <<>>, resp))

set_price_auto(slf, macid, resp) ==
    Loads(_send_http_comm(slf, "set_price", macid,
                          <<<<"Price", "0xFFFFFFFF">>, <<"TrailingDigits", "0x00">>>>, resp))

\* get_remote_management calls self.get_device_config(self, MacId=macid):
\* get_device_config takes no MacId keyword, so the call itself raises
\* TypeError and the body of get_device_config never runs
get_remote_management(slf, macid) == Raise(slf, "TypeError")

get_historical_data(slf, macid, period, resp) ==
    IF period \notin {"day", "week", "month", "year"}
    THEN Raise(slf, "ValueError")
    ELSE \* macid goes in lower case, so it lands in **kwargs, not in MacId
         Loads(_send_http_comm(slf, "get_historical_data", None,
                               <<<<"macid", macid>>, <<"Period", period>>>>, resp))

set_remote_management(slf, macid, status, resp) ==
    IF status \notin {"on", "off"}
    THEN Raise(slf, "ValueError")
    ELSE Loads(_send_http_comm(slf, "set_remote_management", macid,
                               <<<<"Status", status>>>>, resp))

set_time_source(slf, macid, source, resp) ==
    IF source \notin {"meter", "internet"}
    THEN Raise(slf, "ValueError")
    ELSE Loads(_send_http_comm(slf, "set_time_source", macid,
                               <<<<"Source", source>>>>, resp))

confirm_message(slf, macid, id, resp) ==
    LET h == _tohex(id, 8)
        w == IF h.warned THEN {"_tohex"} ELSE {}
    IN  IF h.err # "" THEN Raise(slf, h.err)
        ELSE [Loads(_send_http_comm(slf, "confirm_message", macid,
                                    <<<<"Id", h.ret>>>>, resp)) EXCEPT !.warned = w]

(***************************************************************************)
(* urllib.parse.urlparse, for URLs of the shape                            *)
(*   [scheme:][//[user[:password]@]host[:port]][/path][?query][#fragment]  *)
(***************************************************************************)
UpperChars == "ABCDEFGHIJKLMNOPQRSTUVWXYZ"
IsUpper(c) == \E i \in 1..Len(UpperChars) : c = CharAt(UpperChars, i)
LowerOf(c) ==
    IF IsUpper(c)
    THEN CharAt(LowerChars, CHOOSE i \in 1..Len(UpperChars) : c = CharAt(UpperChars, i))
    ELSE c

\* str.lower(); like the other operations on a whole string it is a
\* function, applied to the value of its argument
ToLower[s \in STRING] ==
    IF s = "" THEN "" ELSE LowerOf(CharAt(s, 1)) \o ToLower[SubSeq(s, 2, Len(s))]

\* the first and the last position of a character of cs in s, 0 when there is none
Find[s \in STRING, cs \in SUBSET STRING] ==
    LET at == {i \in 1..Len(s) : CharAt(s, i) \in cs}
    IN  IF at = {} THEN 0 ELSE CHOOSE i \in at : \A j \in at : i <= j

FindLast[s \in STRING, cs \in SUBSET STRING] ==
    LET at == {i \in 1..Len(s) : CharAt(s, i) \in cs}
    IN  IF at = {} THEN 0 ELSE CHOOSE i \in at : \A j \in at : i >= j

Before(s, i) == SubSeq(s, 1, i - 1)
From(s, i) == SubSeq(s, i, Len(s))

\* url cut at character i, which is left out; the whole of url is on the
\* side given by whole when i is 0
Partition[url \in STRING, i \in Nat, whole \in {"head", "tail"}] ==
    IF i # 0 THEN [head |-> Before(url, i), tail |-> From(url, i + 1)]
    ELSE IF whole = "head" THEN [head |-> url, tail |-> ""]
    ELSE [head |-> "", tail |-> url]

\* the scheme of url, when url starts with one, and what follows its colon
SplitScheme[url \in STRING] ==
    LET cut == Partition[url, Find[url, {":"}], "tail"]
    IN  IF /\ cut.head # ""
           /\ IsLower(CharAt(url, 1)) \/ IsUpper(CharAt(url, 1))
           /\ \A j \in 1..Len(cut.head) :
                  LET c == CharAt(url, j)
                  IN  IsLower(c) \/ IsUpper(c) \/ IsDigit(c) \/ c \in {"+", "-", "."}
        THEN [scheme |-> ToLower[cut.head], rest |-> cut.tail]
        ELSE [scheme |-> "", rest |-> url]

\* _splitnetloc(url, 2): the netloc ends at the first of "/", "?", "#"
_splitnetloc[url \in STRING] ==
    LET delim == Find[From(url, 3), {"/", "?", "#"}]
    IN  IF delim = 0 THEN [netloc |-> From(url, 3), rest |-> ""]
        ELSE [netloc |-> SubSeq(url, 3, delim + 1), rest |-> From(url, delim + 2)]

\* the username and password properties: netloc.rpartition('@'), then
\* userinfo.partition(':')
_userinfo[netloc \in STRING] ==
    LET at == FindLast[netloc, {"@"}]
        up == Partition[Before(netloc, at), Find[Before(netloc, at), {":"}], "head"]
    IN  IF at = 0 THEN [username |-> None, password |-> None]
        ELSE IF Find[Before(netloc, at), {":"}] = 0
        THEN [username |-> up.head, password |-> None]
        ELSE [username |-> up.head, password |-> up.tail]

\* the port property: None when absent, ValueError when it is not a number
\* of 0..65535
PortOf[portstr \in STRING] ==
    IF portstr = "" THEN [ret |-> 0, none |-> TRUE, err |-> ""]
    ELSE IF ~AllDigits(portstr) \/ Len(portstr) > 5 \/ ParseDec(portstr) > 65535
    THEN [ret |-> 0, none |-> TRUE, err |-> "ValueError"]
    ELSE [ret |-> ParseDec(portstr), none |-> FALSE, err |-> ""]

\* the hostname and port properties: what follows the last '@' of the
\* netloc, cut at its ':'
_hostinfo[netloc \in STRING] ==
    LET hostinfo == From(netloc, FindLast[netloc, {"@"}] + 1)
        hp == Partition[hostinfo, Find[hostinfo, {":"}], "head"]
    IN  [hostname |-> IF hp.head = "" THEN None ELSE ToLower[hp.head],
         port |-> PortOf[hp.tail]]

\* the parts of url after its scheme
SplitRest[scheme \in STRING, rest \in STRING] ==
    LET n == IF StartsWith(rest, "//") THEN _splitnetloc[rest]
             ELSE [netloc |-> "", rest |-> rest]
    IN  [scheme |-> scheme,
         \* the path: what comes before the query and the fragment
         path |-> Partition[n.rest, Find[n.rest, {"?", "#"}], "head"].head,
         hostname |-> _hostinfo[n.netloc].hostname,
         username |-> _userinfo[n.netloc].username,
         password |-> _userinfo[n.netloc].password,
         port |-> _hostinfo[n.netloc].port]

urlsplit(url) == SplitRest[SplitScheme[url].scheme, SplitScheme[url].rest]

\* the URLs given to set_cloud
Url200 ==
    LET a64 == "aaaaaaaaaaaaaaaaaaaaaaaaaaaaaaaaaaaaaaaaaaaaaaaaaaaaaaaaaaaaaaaa"
    IN  "http://host/" \o a64 \o a64 \o SubSeq(a64, 1, 60)
Urls ==
    {None, "http://user:pw@host:8080/upload/v1", "host/path", "https://host",
     "http://host:99999/x", Url200, Url200 \o "a"}

\* urlparse(url), computed once for each URL
urlparse == [url \in Urls \ {None} |-> urlsplit(url)]

(***************************************************************************)
(* Eagle.set_cloud                                                         *)
(***************************************************************************)
MaxUrlLen == 200

set_cloud(slf, macid, url, authcode, email, resp) ==
    IF url = None THEN Raise(slf, "ValueError")
    ELSE IF Len(url) > MaxUrlLen THEN Raise(slf, "ValueError")
    ELSE LET urlp == urlparse[url]
             port == IF ~urlp.port.none /\ urlp.port.ret # 0
                     THEN FormatHex(0, urlp.port.ret, 4)
                     ELSE "0x00"
             protocol == IF Truthy(urlp.scheme) THEN urlp.scheme ELSE "http"
             userid == IF Truthy(urlp.username) THEN urlp.username ELSE ""
             password == IF Truthy(urlp.password) THEN urlp.password ELSE ""
         IN  IF urlp.port.err # "" THEN Raise(slf, urlp.port.err)
             ELSE Loads(_send_http_comm(slf, "set_cloud", macid,
                        <<<<"Provider", "manual">>, <<"Protocol", protocol>>,
                          <<"HostName", urlp.hostname>>, <<"Url", urlp.path>>,
                          <<"Port", port>>, <<"AuthCode", authcode>>,
                          <<"Email", email>>, <<"UserId", userid>>,
                          <<"Password", password>>>>, resp))

(***************************************************************************)
(* Floats.  A positive float is mant * 2^exp with mant a number of 53      *)
(* bits (IEEE 754 binary64, round to nearest, ties to even).  Numbers too  *)
(* wide for one machine word are sequences of limbs of BigWidth bits,      *)
(* lowest limb first, no zero limb at the top.                             *)
(***************************************************************************)
MantBits == 53
BigWidth == 10
BigBase == Pow2(BigWidth)

\* The operations on these numbers are functions: a function is applied to
\* the values of its arguments, as a Python function is.
Big == Seq(Nat)
Float == [mant : Big, exp : Int]

BigNorm[a \in Big] ==
    IF Len(a) > 0 /\ a[Len(a)] = 0 THEN BigNorm[SubSeq(a, 1, Len(a) - 1)] ELSE a

BigOfNat[n \in Nat] == IF n = 0 THEN <<>> ELSE <<n % BigBase>> \o BigOfNat[n \div BigBase]

\* a * c + carry from limb i on, for a small c (c below 2^20)
BigTimesFrom[a \in Big, c \in Nat, i \in Nat, carry \in Nat] ==
    IF i > Len(a) THEN BigOfNat[carry]
    ELSE LET v == a[i] * c + carry
         IN  <<v % BigBase>> \o BigTimesFrom[a, c, i + 1, v \div BigBase]

BigTimes[a \in Big, c \in Nat] == BigNorm[BigTimesFrom[a, c, 1, 0]]

\* quotient and remainder of a by a small den: the limbs i, ..., 1 of a
\* are still to divide, rem is the remainder and q the quotient so far
BigDivFrom[a \in Big, den \in Nat, i \in Nat, rem \in Nat, q \in Big] ==
    IF i = 0 THEN [q |-> q, rem |-> rem]
    ELSE LET v == rem * BigBase + a[i]
         IN  BigDivFrom[a, den, i - 1, v % den, <<v \div den>> \o q]

BigShiftLeft[a \in Big, n \in Nat] ==
    [i \in 1..(n \div BigWidth) |-> 0] \o BigTimes[a, Pow2(n % BigWidth)]

BigShiftRight[a \in Big, n \in Nat] ==
    LET q == n \div BigWidth
        r == n % BigWidth
    IN  BigNorm[[j \in 1..(Len(a) - q) |->
                    (a[j + q] \div Pow2(r))
                    + (IF j + q + 1 <= Len(a)
                       THEN (a[j + q + 1] % Pow2(r)) * Pow2(BigWidth - r)
                       ELSE 0)]]

\* bit i of a, the lowest bit being bit 1
BigBit[a \in Big, i \in Int] ==
    LET q == (i - 1) \div BigWidth
        r == (i - 1) % BigWidth
    IN  IF i < 1 \/ q + 1 > Len(a) THEN 0 ELSE (a[q + 1] \div Pow2(r)) % 2

\* some bit among the lowest n bits of a is set
BigLowBits[a \in Big, n \in Int] ==
    \E i \in 1..Len(a) :
        \/ i <= n \div BigWidth /\ a[i] # 0
        \/ i = n \div BigWidth + 1 /\ a[i] % Pow2(n % BigWidth) # 0

NatBitLen[n \in Nat] == IF n = 0 THEN 0 ELSE 1 + NatBitLen[n \div 2]

BigBitLen[a \in Big] ==
    IF Len(a) = 0 THEN 0 ELSE BigWidth * (Len(a) - 1) + NatBitLen[a[Len(a)]]

\* a + 1, the carry entering at limb i
BigIncFrom[a \in Big, i \in Nat] ==
    IF i > Len(a) THEN <<1>>
    ELSE IF a[i] + 1 < BigBase THEN <<a[i] + 1>> \o SubSeq(a, i + 1, Len(a))
    ELSE <<0>> \o BigIncFrom[a, i + 1]

TimesPow10[a \in Big, t \in Nat] ==
    IF t = 0 THEN a ELSE TimesPow10[BigTimes[a, 10], t - 1]

Pow10[t \in Nat] == IF t = 0 THEN 1 ELSE 10 * Pow10[t - 1]

\* the first MantBits bits of a * 2^exp, rounded up or not
RoundTo[a \in Big, exp \in Int, up \in BOOLEAN] ==
    LET drop == BigBitLen[a] - MantBits
        kept == BigShiftRight[a, drop]
    IN  IF ~up THEN [mant |-> kept, exp |-> exp + drop]
        ELSE IF BigBitLen[BigIncFrom[kept, 1]] > MantBits
        THEN [mant |-> BigShiftRight[BigIncFrom[kept, 1], 1], exp |-> exp + drop + 1]
        ELSE [mant |-> BigIncFrom[kept, 1], exp |-> exp + drop]

\* round a * 2^exp (plus a nonzero rest below the last bit when sticky) to
\* MantBits bits, to nearest, ties to even
RoundBits[a \in Big, sticky \in BOOLEAN, exp \in Int] ==
    LET drop == BigBitLen[a] - MantBits
        half == BigBit[a, drop] = 1
        low == sticky \/ BigLowBits[a, drop - 1]
        even == BigBit[a, drop + 1] = 0
    IN  IF drop <= 0 THEN [mant |-> BigShiftLeft[a, -drop], exp |-> exp + drop]
        ELSE RoundTo[a, exp, half /\ (low \/ ~even)]

\* float("k.ddd"): the float nearest to k / 10^d, for k > 0 and d <= 6;
\* the quotient is taken with enough bits to round it
DecimalToFloat[k \in Nat, d \in Nat] ==
    LET scale == MantBits + 22
        num == BigShiftLeft[BigOfNat[k], scale]
        dv == BigDivFrom[num, Pow10[d], Len(num), 0, <<>>]
    IN  RoundBits[BigNorm[dv.q], dv.rem # 0, -scale]

\* float * 10^t: the int is exact as a float, the product is rounded once
FloatTimes[x \in Float, t \in Nat] == RoundBits[TimesPow10[x.mant, t], FALSE, x.exp]

\* floor(x) and int(x) of a positive float
FloatFloor[x \in Float] ==
    IF x.exp >= 0 THEN BigShiftLeft[x.mant, x.exp] ELSE BigShiftRight[x.mant, -x.exp]

\* x != floor(x): some bit of x lies below the units
HasFraction[x \in Float] == x.exp < 0 /\ BigLowBits[x.mant, -x.exp]

\* "{:#x}".format(i) of a non-negative int
BigNibble[a \in Big, j \in Nat] ==
    BigBit[a, 4 * j + 1] + 2 * BigBit[a, 4 * j + 2]
    + 4 * BigBit[a, 4 * j + 3] + 8 * BigBit[a, 4 * j + 4]

BigHexFrom[a \in Big, j \in Int] ==
    IF j < 0 THEN "" ELSE HexChar(BigNibble[a, j]) \o BigHexFrom[a, j - 1]

BigHex[a \in Big] ==
    "0x" \o (IF Len(a) = 0 THEN "0" ELSE BigHexFrom[a, (BigBitLen[a] - 1) \div 4])

\* int(s, 16) of a "0x"-prefixed string, as limbs of BigWidth bits
BigParseHexFrom[s \in STRING, i \in Nat, acc \in Big] ==
    IF i > Len(s) THEN acc
    ELSE BigParseHexFrom[s, i + 1, BigNorm[BigTimesFrom[acc, 16, 1, HexVal(CharAt(s, i))]]]

BigParseHex(s) == BigParseHexFrom[s, 3, <<>>]

(***************************************************************************)
(* Eagle.set_price                                                         *)
(***************************************************************************)
PyFloat(sign, x) == [t |-> "float", sign |-> sign, mant |-> x.mant, exp |-> x.exp]

\* the absolute value of a float
abs(p) == [mant |-> p.mant, exp |-> p.exp]

RECURSIVE LStrip(_, _)
LStrip(s, c) == IF StartsWith(s, c) THEN LStrip(From(s, 2), c) ELSE s

\* float(s) for text of the shape [-]digits[.digits]; ValueError otherwise
float(s) ==
    LET neg == StartsWith(s, "-")
        body == IF neg THEN From(s, 2) ELSE s
        dot == Find[body, {"."}]
        whole == IF dot = 0 THEN body ELSE Before(body, dot)
        frac == IF dot = 0 THEN "" ELSE From(body, dot + 1)
        digits == whole \o frac
        k == ParseDec(digits)
    IN  IF ~AllDigits(digits)
        THEN [ret |-> PyNone, err |-> "ValueError"]
        ELSE IF k = 0
        THEN [ret |-> PyFloat(0, [mant |-> <<>>, exp |-> 0]), err |-> ""]
        ELSE [ret |-> PyFloat(IF neg THEN -1 ELSE 1, DecimalToFloat[k, Len(frac)]),
              err |-> ""]

\* price < 0 in the place of price <= 0
Negative(price) ==
    IF price.t = "int" THEN price.hi < 0 ELSE price.sign < 0

\* price <= 0
NotPositive(price) ==
    IF price.t = "int" THEN price.hi < 0 \/ (price.hi = 0 /\ price.lo = 0)
    ELSE price.sign <= 0

MaxTrailingDigits == 7

\* the price argument of set_price, as the caller writes it; a float is
\* written as the decimal sign * k / 10^d
PyDecimal(sign, k, d) == [t |-> "float", sign |-> sign, k |-> k, d |-> d]

PriceArgs ==
    {PyNone, PyStr("abc"), PyStr("$abc"), PyStr("$-1"), PyStr("$0.07"),
     PyInt(-1, 65535), PyInt(0, 0), PyInt(0, 14),
     PyDecimal(-1, 5, 1), PyDecimal(0, 0, 0),
     PyDecimal(1, 13, 2), PyDecimal(1, 201, 2), PyDecimal(1, 123456, 6)}

\* the value of a price as written, computed once for each price
PriceValue ==
    [lit \in PriceArgs |->
        IF lit.t # "float" THEN lit
        ELSE IF lit.k = 0 THEN PyFloat(0, [mant |-> <<>>, exp |-> 0])
        ELSE PyFloat(lit.sign, DecimalToFloat[lit.k, lit.d])]

\* the while loop of set_price on a float: the first trailing_digits, from
\* the one given, at which price * multiplier is whole or the limit is reached
TrailingDigits[x \in Float, trailing_digits \in Nat] ==
    IF HasFraction[FloatTimes[x, trailing_digits]] /\ trailing_digits < MaxTrailingDigits
    THEN TrailingDigits[x, trailing_digits + 1]
    ELSE trailing_digits

\* set_price up to the call of _send_http_comm: the exception raised, or
\* the Price and TrailingDigits it sends
EncodePrice(price) ==
    LET conv == IF price.t = "str" /\ StartsWith(price.s, "$")
                THEN float(LStrip(price.s, "$"))
                ELSE [ret |-> price, err |-> ""]
        p == conv.ret
        trailing_digits == IF p.t = "int" THEN 0 ELSE TrailingDigits[abs(p), 0]
        \* int(price * multiplier), with multiplier = 10^trailing_digits
        price_adj == IF p.t = "int" THEN "0x" \o LimbHex(p.hi, p.lo)
                     ELSE BigHex[FloatFloor[FloatTimes[abs(p), trailing_digits]]]
        tdigits == "0x" \o NatHex(trailing_digits)
    IN  IF conv.err # "" THEN [err |-> conv.err, price_adj |-> "", tdigits |-> ""]
        ELSE IF p.t \notin {"int", "float"}
        THEN [err |-> "ValueError", price_adj |-> "", tdigits |-> ""]
        ELSE IF NotPositive(p)
        THEN [err |-> "ValueError", price_adj |-> "", tdigits |-> ""]
        ELSE [err |-> "", price_adj |-> price_adj, tdigits |-> tdigits]

\* EncodePrice, computed once for each price
EncodedPrice == [lit \in PriceArgs |-> EncodePrice(PriceValue[lit])]

\* set_price(macid, price), the price being the value of lit
set_price(slf, macid, lit, resp) ==
    LET e == EncodedPrice[lit]
    IN  IF e.err # "" THEN Raise(slf, e.err)
        ELSE Loads(_send_http_comm(slf, "set_price", macid,
                                   <<<<"Price", e.price_adj>>,
                                     <<"TrailingDigits", e.tdigits>>>>, resp))

(***************************************************************************)
(* Eagle.__init__                                                          *)
(***************************************************************************)
\* the preload step: self.device_info = self.get_device_list(), then
\* self.macid = self.device_info['device_mac_id[0]']
Preload(slf, resp) ==
    LET r == get_device_list(slf, None, resp)
        info == [r.self EXCEPT !.device_info = r.ret]
        mac == GetItem(r.ret, "device_mac_id[0]")
    IN  IF r.err # "" THEN r
        ELSE IF r.ret.t = "NoneType" THEN [r EXCEPT !.self = info, !.err = "IOError"]
        ELSE IF mac.err # "" THEN [r EXCEPT !.self = info, !.err = mac.err]
        ELSE [r EXCEPT !.self = [info EXCEPT !.macid = mac.ret]]

\* the firmware step: mysetting = self.get_setting_data(), then the
\* comparison of mysetting['device_fw_version'] with min_fw_ver
CheckFirmware(slf, resp) ==
    LET r == get_setting_data(slf, None, resp)
        dev_fw_ver == GetItem(r.ret, "device_fw_version")
        below == LooseVersionLess(dev_fw_ver.ret, min_fw_ver)
    IN  IF r.err # "" THEN r
        ELSE IF dev_fw_ver.err # "" THEN [r EXCEPT !.err = dev_fw_ver.err]
        ELSE IF below.err # "" THEN [r EXCEPT !.err = below.err]
        ELSE IF below.ret THEN [r EXCEPT !.warned = {"firmware"}]
        ELSE r

__init__(addr, username, password, port, debug, checkfirmware, macid, timeout, resp1, resp2) ==
    LET s0 == [username |-> username, password |-> password, debug |-> debug,
               checkfw |-> checkfirmware, addr |-> addr, port |-> port,
               timeout |-> timeout, soc |-> None, macid |-> macid,
               device_info |-> PyNoneVal]
        d == IF ~Truthy(s0.macid) THEN Preload(s0, resp1) ELSE Return(s0, PyNoneVal)
    IN  IF s0.addr = None THEN Raise(s0, "ValueError")
        ELSE IF d.err # "" THEN d
        ELSE IF d.self.checkfw
        THEN LET f == After(d, CheckFirmware(d.self, resp2))
             IN  [f EXCEPT !.ret = PyNoneVal]
        ELSE [d EXCEPT !.ret = PyNoneVal]

(***************************************************************************)
(* _et2d.  An ET.Element is a record of its tag, its attributes (a         *)
(* function from the attribute names to their values), its text (a str or  *)
(* None) and the sequence of its children.  The dict returned is a         *)
(* function from its keys; a value in it is a str, None, a dict or a       *)
(* list, each a record tagged with its type.                               *)
(***************************************************************************)
RECURSIVE _et2d(_), Et2dChildren(_, _, _)

\* the loop over the children, from child i on, d being the dict so far
Et2dChildren(children, i, d) ==
    IF i > Len(children) THEN d
    ELSE LET child == children[i]
             \* a value that is not a list becomes a list of itself
             listed == IF child.tag \in DOMAIN d /\ d[child.tag].t # "list"
                       THEN (child.tag :> [t |-> "list", items |-> <<d[child.tag]>>]) @@ d
                       ELSE d
             value == IF Len(child.children) > 0 \/ DOMAIN child.attrib # {}
                      THEN PyDict(_et2d(child))
                      ELSE child.text
         IN  Et2dChildren(children, i + 1,
                 IF child.tag \in DOMAIN listed
                 THEN (child.tag :> [t |-> "list",
                                     items |-> Append(listed[child.tag].items, value)])
                      @@ listed
                 ELSE (child.tag :> value) @@ listed)

\* _et2d with the attributes of et left out
Et2dWithoutAttribs(et) ==
    IF et.t # "Element" THEN NoMap ELSE Et2dChildren(et.children, 1, NoMap)

\* _et2d(et): the empty dict for what is not an Element; else the keys
\* et.tag + "-" + k of the attributes of et, then the loop over its children
_et2d(et) ==
    IF et.t # "Element" THEN NoMap
    ELSE Et2dChildren(et.children, 1,
             [key \in {et.tag \o "-" \o k : k \in DOMAIN et.attrib} |->
                 PyStr(et.attrib[CHOOSE k \in DOMAIN et.attrib :
                                     et.tag \o "-" \o k = key])])

(***************************************************************************)
(* The inputs                                                              *)
(***************************************************************************)
EAGLE_PORT == 5002
DefaultTimeout == 10

Addrs == {None, "192.168.1.5"}
Usernames == {None, "user"}
Passwords == {None, "secret"}

\* the macid argument: absent, empty, or a meter of the caller
CallerMacId == "0x001350030000ffff"
InitMacIds == {None, "", CallerMacId}
MacIdArgs == {None, CallerMacId}

\* what the transport answers to a command
CommandResponses ==
    {[kind |-> "URLError", page |-> Page(FALSE, PyNoneVal)],
     [kind |-> "page", page |-> Page(FALSE, PyNoneVal)],
     [kind |-> "page", page |-> Page(TRUE, PyDict([k \in {"status"} |-> "success"]))]}

Periods == {"day", "week", "month", "year", "hour", None}
Statuses == {"on", "off", "ON", None}
Sources == {"meter", "internet", "gps", None}

PyText(v) == [t |-> "text", s |-> v]

\* ints around the values where the hex digits and the sign change: 0,
\* 2^8, 2^12, 2^16, 2^20, 2^24, 2^28, -2^12, -2^16, -2^24, the ends -2^31
\* and 2^31 of the 32-bit range, and -2^32, 2^32 outside it
IntBoundaries ==
    {PyInt(-32768, 0), PyInt(-256, 0), PyInt(-1, 0), PyInt(-1, 61440),
     PyInt(0, 0), PyInt(0, 256), PyInt(0, 4096), PyInt(1, 0), PyInt(16, 0),
     PyInt(256, 0), PyInt(4096, 0), PyInt(32768, 0), PyInt(-65536, 0),
     PyInt(65536, 0)}

\* the ints b + k around a boundary b
IntSamples ==
    {PyInt(b.hi + (b.lo + k) \div Limb, (b.lo + k) % Limb) :
        b \in IntBoundaries, k \in (-HexSpread)..HexSpread}

InInt32(n) == n.hi >= -32768 /\ n.hi <= 32767

\* the id argument of confirm_message
Ids ==
    {PyNone, PyStr("0x1f"), PyStr("12"), PyStr("abc"),
     PyInt(0, 5), PyInt(-1, 65535), PyInt(32768, 0)}

\* the arguments of _et2d: None, and the elements with the tags "device"
\* and "device-id", with or without the attribute id="7", whose children
\* are leaves (with text "x" or none, or the attribute) or elements with
\* one leaf child
Elements ==
    LET Tags == {"device", "device-id"}
        Attribs == {NoMap, [k \in {"id"} |-> "7"]}
        ET_Element(tag, attrib, text, children) ==
            [t |-> "Element", tag |-> tag, attrib |-> attrib, text |-> text,
             children |-> children]
        Leaves == {ET_Element(tag, NoMap, text, <<>>) : tag \in Tags, text \in {PyNone, PyStr("x")}}
                  \cup {ET_Element(tag, [k \in {"id"} |-> "7"], PyNone, <<>>) : tag \in Tags}
        Nested == {ET_Element(tag, NoMap, PyNone, <<leaf>>) :
                      tag \in Tags,
                      leaf \in {ET_Element("device", NoMap, PyStr("y"), <<>>),
                                ET_Element("device", [k \in {"id"} |-> "7"], PyNone, <<>>)}}
    IN  {PyNone} \cup
        {ET_Element(tag, attrib, PyNone, children) :
            tag \in Tags, attrib \in Attribs,
            children \in UNION {[1..n -> Leaves \cup Nested] : n \in 0..MaxChildren}}

(***************************************************************************)
(* The state                                                               *)
(*   self      the Eagle object (its attributes)                           *)
(*   state     Uninitialized, Ready (the constructor returned) or Failed   *)
(*             (the constructor raised: the caller holds no object)        *)
(*   ncalls    how many times urlopen was invoked                          *)
(*   last      the latest call: its number, method, arguments and outcome  *)
(*   warnings  the warnings issued so far                                  *)
(*   hexio     an int on its way through _tohex and _twos_comp             *)
(*   etio      an element tree on its way through _et2d                    *)
(***************************************************************************)
NoSelf ==
    [username |-> None, password |-> None, debug |-> FALSE, checkfw |-> FALSE,
     addr |-> None, port |-> EAGLE_PORT, timeout |-> DefaultTimeout, soc |-> None,
     macid |-> None, device_info |-> PyNoneVal]

NoCall ==
    [seq |-> 0, op |-> "", macid |-> None, arg |-> PyNone, err |-> "", ret |-> PyNoneVal,
     built |-> <<>>, sent |-> <<>>, got |-> <<>>, printed |-> <<>>]

Init ==
    /\ self = NoSelf
    /\ state = "Uninitialized"
    /\ ncalls = 0
    /\ last = NoCall
    /\ warnings = {}
    /\ hexio = [phase |-> "idle", n |-> PyInt(0, 0), s |-> "", back |-> PyInt(0, 0)]
    /\ etio = [phase |-> "idle", et |-> PyNone, d |-> NoMap]

\* the effect of a call on the state; the call is made once, r is its outcome
Record(op, macid, arg, call) ==
    /\ last.seq < MaxCalls
    /\ \E r \in {call} :
           /\ self' = r.self
           /\ ncalls' = ncalls + Len(r.sent)
           /\ last' = [seq |-> last.seq + 1, op |-> op, macid |-> macid, arg |-> arg,
                       err |-> r.err, ret |-> r.ret, built |-> r.built, sent |-> r.sent,
                       got |-> r.got, printed |-> r.printed]
           /\ warnings' = warnings \cup r.warned
    /\ UNCHANGED <<hexio, etio>>

Construct ==
    /\ state = "Uninitialized"
    /\ \E addr \in Addrs, username \in Usernames, password \in Passwords,
          debug \in BOOLEAN, checkfirmware \in BOOLEAN, macid \in InitMacIds,
          resp1 \in Responses, resp2 \in Responses :
          \E r \in {__init__(addr, username, password, EAGLE_PORT, debug,
                            checkfirmware, macid, DefaultTimeout, resp1, resp2)} :
              /\ Record("__init__", macid,
                        [t |-> "args", addr |-> addr, checkfw |-> checkfirmware], r)
              /\ state' = IF r.err = "" THEN "Ready" ELSE "Failed"

\* a call of a command method on the constructed client
Call(op, macid, arg, call) ==
    /\ state = "Ready"
    /\ Record(op, macid, arg, call)
    /\ UNCHANGED state

GetDeviceList ==
    \E macid \in MacIdArgs, resp \in CommandResponses :
        Call("get_device_list", macid, PyNone, get_device_list(self, macid, resp))

GetUploaders ==
    \E macid \in MacIdArgs, resp \in CommandResponses :
        Call("get_uploaders", macid, PyNone, get_uploaders(self, macid, resp))

GetUploader ==
    \E macid \in MacIdArgs, resp \in CommandResponses :
        Call("get_uploader", macid, PyNone, get_uploader(self, macid, resp))

SetMessageRead ==
    \E macid \in MacIdArgs, resp \in CommandResponses :
        Call("set_message_read", macid, PyNone, set_message_read(self, macid, resp))

GetMessage ==
    \E macid \in MacIdArgs, resp \in CommandResponses :
        Call("get_message", macid, PyNone, get_message(self, macid, resp))

GetUsageData ==
    \E macid \in MacIdArgs, resp \in CommandResponses :
        Call("get_usage_data", macid, PyNone, get_usage_data(self, macid, resp))

GetSettingData ==
    \E macid \in MacIdArgs, resp \in CommandResponses :
        Call("get_setting_data", macid, PyNone, get_setting_data(self, macid, resp))

GetDeviceConfig ==
    \E macid \in MacIdArgs, resp \in CommandResponses :
        Call("get_device_config", macid, PyNone, get_device_config(self, macid, resp))

GetGatewayInfo ==
    \E macid \in MacIdArgs, resp \in CommandResponses :
        Call("get_gateway_info", macid, PyNone, get_gateway_info(self, macid, resp))

GetTimezone ==
    \E macid \in MacIdArgs, resp \in CommandResponses :
        Call("get_timezone", macid, PyNone, get_timezone(self, macid, resp))

GetTimeSource ==
    \E macid \in MacIdArgs, resp \in CommandResponses :
        Call("get_time_source", macid, PyNone, get_time_source(self, macid, resp))

GetPrice ==
    \E macid \in MacIdArgs, resp \in CommandResponses :
        Call("get_price", macid, PyNone, get_price(self, macid, resp))

FactoryReset ==
    \E macid \in MacIdArgs, resp \in CommandResponses :
        Call("factory_reset", macid, PyNone, factory_reset(self, macid, resp))

CloudReset ==
    \E macid \in MacIdArgs, resp \in CommandResponses :
        Call("cloud_reset", macid, PyNone, cloud_reset(self, macid, resp))

SetPriceAuto ==
    \E macid \in MacIdArgs, resp \in CommandResponses :
        Call("set_price_auto", macid, PyNone, set_price_auto(self, macid, resp))

GetRemoteManagement ==
    \E macid \in MacIdArgs :
        Call("get_remote_management", macid, PyNone, get_remote_management(self, macid))

GetHistoricalData ==
    \E macid \in MacIdArgs, period \in Periods, resp \in CommandResponses :
        Call("get_historical_data", macid, PyText(period),
             get_historical_data(self, macid, period, resp))

SetRemoteManagement ==
    \E macid \in MacIdArgs, status \in Statuses, resp \in CommandResponses :
        Call("set_remote_management", macid, PyText(status),
             set_remote_management(self, macid, status, resp))

SetTimeSource ==
    \E macid \in MacIdArgs, source \in Sources, resp \in CommandResponses :
        Call("set_time_source", macid, PyText(source),
             set_time_source(self, macid, source, resp))

ConfirmMessage ==
    \E macid \in MacIdArgs, id \in Ids, resp \in CommandResponses :
        Call("confirm_message", macid, id, confirm_message(self, macid, id, resp))

SetPrice ==
    \E macid \in MacIdArgs, price \in PriceArgs, resp \in CommandResponses :
        Call("set_price", macid, price, set_price(self, macid, price, resp))

SetCloud ==
    \E macid \in MacIdArgs, url \in Urls, resp \in CommandResponses :
        Call("set_cloud", macid, PyText(url),
             set_cloud(self, macid, url, "authcode", "me@example.org", resp))

Next ==
    \/ Construct
    \/ GetDeviceList \/ GetUploaders \/ GetUploader \/ SetMessageRead
    \/ GetMessage \/ GetUsageData \/ GetSettingData \/ GetDeviceConfig
    \/ GetGatewayInfo \/ GetTimezone \/ GetTimeSource \/ GetPrice
    \/ FactoryReset \/ CloudReset \/ SetPriceAuto \/ GetRemoteManagement
    \/ GetHistoricalData \/ SetRemoteManagement \/ SetTimeSource
    \/ ConfirmMessage \/ SetPrice \/ SetCloud

Spec == Init /\ [][Next]_vars

(***************************************************************************)
(* _tohex and _twos_comp taken alone: an int n is written by               *)
(* _tohex(n, 8); the string is read by int(s, 16) and passed through       *)
(* _twos_comp(v, 32).                                                      *)
(***************************************************************************)
InitHex ==
    /\ self = NoSelf
    /\ state = "Uninitialized"
    /\ ncalls = 0
    /\ last = NoCall
    /\ warnings = {}
    /\ \E n \in IntSamples :
           hexio = [phase |-> "int", n |-> n, s |-> "", back |-> PyInt(0, 0)]
    /\ etio = [phase |-> "idle", et |-> PyNone, d |-> NoMap]

ToHexStep ==
    /\ hexio.phase = "int"
    /\ \E h \in {_tohex(hexio.n, 8)} :
           /\ hexio' = [hexio EXCEPT !.phase = "hex", !.s = h.ret]
           /\ warnings' = warnings \cup (IF h.warned THEN {"_tohex"} ELSE {})
    /\ UNCHANGED <<self, state, ncalls, last, etio>>

TwosCompStep ==
    /\ hexio.phase = "hex"
    /\ hexio' = [hexio EXCEPT !.phase = "back",
                               !.back = _twos_comp(ParseHex(hexio.s), 32)]
    /\ UNCHANGED <<self, state, ncalls, last, warnings, etio>>

NextHex == ToHexStep \/ TwosCompStep

SpecHex == InitHex /\ [][NextHex]_vars

(***************************************************************************)
(* _et2d taken alone: an argument et is converted by _et2d(et).            *)
(***************************************************************************)
InitEt ==
    /\ self = NoSelf
    /\ state = "Uninitialized"
    /\ ncalls = 0
    /\ last = NoCall
    /\ warnings = {}
    /\ hexio = [phase |-> "idle", n |-> PyInt(0, 0), s |-> "", back |-> PyInt(0, 0)]
    /\ \E et \in Elements : etio = [phase |-> "et", et |-> et, d |-> NoMap]

Et2dStep ==
    /\ etio.phase = "et"
    /\ etio' = [etio EXCEPT !.phase = "dict", !.d = _et2d(etio.et)]
    /\ UNCHANGED <<self, state, ncalls, last, warnings, hexio>>

SpecEt == InitEt /\ [][Et2dStep]_vars

(***************************************************************************)
(* Properties                                                              *)
(***************************************************************************)
\* the step is a call of a method of the client
IsCall == last'.seq = last.seq + 1

\* the names of the commands of a sequence of request bodies
Names(bodies) == [i \in 1..Len(bodies) |-> bodies[i].children[1].text]

\* C1: a call of set_cloud, whatever the URL and the client, whether it
\* returns or raises, hands no body to urlopen: the number of invocations
\* of urlopen is the same after the call as before it.
C1_SetCloudNeverInvokesTransport ==
    [][IsCall /\ last'.op = "set_cloud"
          => ncalls' = ncalls /\ last'.sent = <<>> /\ last'.got = <<>>]_vars

\* set_cloud built (and printed) the body of a valid URL on a client whose
\* construction had invoked urlopen
C1_Witness ==
    /\ last.op = "set_cloud"
    /\ last.arg.s # None
    /\ Names(last.built) = <<"set_cloud">>
    /\ last.printed = last.built
    /\ ncalls >= 1

\* a price that is no number or is not above zero, as the caller writes it
InvalidPrice(price) ==
    \/ price.t = "NoneType"
    \/ price.t = "str" /\ price.s \in {"abc", "$abc", "$-1"}
    \/ price.t = "int" /\ (price.hi < 0 \/ (price.hi = 0 /\ price.lo = 0))
    \/ price.t = "float" /\ (price.sign < 0 \/ price.k = 0)

\* the call c has an argument that its method rejects
InvalidCall(c) ==
    \/ c.op = "set_price" /\ InvalidPrice(c.arg)
    \/ c.op = "get_historical_data" /\ c.arg.s \notin {"day", "week", "month", "year"}
    \/ c.op = "set_remote_management" /\ c.arg.s \notin {"on", "off"}
    \/ c.op = "set_time_source" /\ c.arg.s \notin {"meter", "internet"}

\* C2: a call of set_price with a price that is no number or is <= 0, of
\* get_historical_data with a period outside day, week, month, year, of
\* set_remote_management with a status outside on, off, or of
\* set_time_source with a source outside meter, internet raises ValueError
\* before a request is built: urlopen is not invoked by the call.
C2_InvalidArgumentRaisesBeforeTransport ==
    [][IsCall /\ InvalidCall(last')
          => /\ last'.err = "ValueError"
             /\ ncalls' = ncalls
             /\ last'.built = <<>> /\ last'.sent = <<>>]_vars

\* set_price(price=0) was refused on a client that can reach its device
C2_Witness ==
    /\ last.op = "set_price"
    /\ last.arg = PyInt(0, 0)
    /\ last.err = "ValueError"
    /\ self.username # None /\ self.password # None
    /\ ncalls >= 1

IsPrefix(a, b) == Len(a) <= Len(b) /\ a = SubSeq(b, 1, Len(a))

\* the answer to the discovery call of the construction c carries the
\* identifier of a device
YieldsIdentifier(c) ==
    /\ Len(c.got) >= 1
    /\ c.got[1].kind = "page"
    /\ c.got[1].page.valid
    /\ c.got[1].page.value.t = "dict"
    /\ "device_mac_id[0]" \in DOMAIN c.got[1].page.value.o
    /\ Truthy(c.got[1].page.value.o["device_mac_id[0]"])

\* the calls a completed construction makes: discovery when no MacId was
\* supplied, then settings when the firmware check is enabled
ExpectedCalls(c) ==
    (IF ~Truthy(c.macid) THEN <<"get_device_list">> ELSE <<>>)
    \o (IF c.arg.checkfw THEN <<"get_setting_data">> ELSE <<>>)

\* C3: construction invokes urlopen at most twice; without an address it
\* raises ValueError and invokes nothing; otherwise it invokes discovery
\* (get_device_list) iff no MacId was supplied and settings
\* (get_setting_data) iff the firmware check is enabled, in this order;
\* when discovery fails or yields no identifier, construction fails, no
\* settings call follows and the client is not Ready.
C3_ConstructionTransportOrder ==
    last.op = "__init__" =>
        /\ ncalls = Len(last.sent) /\ Len(last.sent) <= 2
        /\ last.arg.addr = None =>
               last.err = "ValueError" /\ last.sent = <<>> /\ state = "Failed"
        /\ last.arg.addr # None =>
               /\ IsPrefix(Names(last.sent), ExpectedCalls(last))
               /\ state = "Ready" => Names(last.sent) = ExpectedCalls(last)
               /\ ~Truthy(last.macid) /\ ~YieldsIdentifier(last) =>
                      /\ state = "Failed"
                      /\ \A i \in 1..Len(last.sent) :
                             Names(last.sent)[i] # "get_setting_data"

\* the construction c reached its firmware step: the settings request is
\* the last body it built
FirmwareStep(c) ==
    /\ c.op = "__init__"
    /\ c.built # <<>>
    /\ Names(c.built)[Len(c.built)] = "get_setting_data"

\* the firmware versions of the samples that are below 2.0.21
BelowMinimum == {"1.0.0", "2.0.20", "2.0"}

\* the device answered the settings call of c with a version below 2.0.21
ReportsOldFirmware(c) ==
    /\ c.got # <<>>
    /\ LET a == c.got[Len(c.got)]
       IN  /\ a.kind = "page" /\ a.page.valid /\ a.page.value.t = "dict"
           /\ "device_fw_version" \in DOMAIN a.page.value.o
           /\ a.page.value.o["device_fw_version"] \in BelowMinimum

\* C4: with the firmware check enabled, a version below 2.0.21 gives a
\* warning only, and the firmware step never aborts construction: a
\* construction that reaches the step completes, the client is Ready.
C4_FirmwareCheckNeverAborts ==
    FirmwareStep(last) =>
        /\ state = "Ready"
        /\ ReportsOldFirmware(last) => "firmware" \in warnings

\* the id of confirm_message is an int or the text of one
ValidId(id) == id.t = "int" \/ (id.t = "str" /\ id.s \in {"0x1f", "12"})

\* the call c is a call of a command with arguments its method accepts
ValidCall(c) ==
    /\ c.op # "__init__"
    /\ ~InvalidCall(c)
    /\ c.op = "confirm_message" => ValidId(c.arg)
    /\ c.op = "set_cloud" => c.arg.s # None /\ Len(c.arg.s) <= MaxUrlLen

\* C5: on a Ready client every call of a command with valid arguments
\* invokes urlopen exactly once, get_remote_management included; set_cloud
\* alone invokes it zero times.
C5_EveryCommandInvokesTransportOnce ==
    [][IsCall /\ state = "Ready" /\ ValidCall(last')
          => ncalls' = ncalls + (IF last'.op = "set_cloud" THEN 0 ELSE 1)]_vars

\* C6: set_cloud with a URL that is present and of at most 200 characters
\* returns the empty mapping; it does not raise.
C6_SetCloudReturnsEmptyMapping ==
    last.op = "set_cloud" /\ last.arg.s # None /\ Len(last.arg.s) <= MaxUrlLen
        => last.err = "" /\ last.ret = PyDict(NoMap)

\* the name a command method puts in the request
CommandName(op) == IF op = "set_price_auto" THEN "set_price" ELSE op

\* the protocol arguments of a command, in the order of the protocol
ProtocolArgs(op) ==
    CASE op = "get_historical_data" -> <<"Period">>
      [] op = "set_remote_management" -> <<"Status">>
      [] op = "set_time_source" -> <<"Source">>
      [] op = "confirm_message" -> <<"Id">>
      [] op \in {"set_price", "set_price_auto"} -> <<"Price", "TrailingDigits">>
      [] op = "set_cloud" ->
            <<"Provider", "Protocol", "HostName", "Url", "Port", "AuthCode",
              "Email", "UserId", "Password">>
      [] OTHER -> <<>>

\* C7: the body a command method builds has the children Name (the command
\* name), MacId (the macid of the call when one is given, else the stored
\* identifier) and one child per protocol argument, in order, and no other.
C7_RequestBodyChildren ==
    last.op # "__init__" /\ last.built # <<>> =>
        /\ Len(last.built) = 1
        /\ last.built[1].tag = "LocalCommand"
        /\ LET children == last.built[1].children
               args == ProtocolArgs(last.op)
           IN  /\ Len(children) = 2 + Len(args)
               /\ children[1] = Element("Name", CommandName(last.op))
               /\ children[2] =
                      Element("MacId", IF Truthy(last.macid) THEN last.macid
                                       ELSE Str(self.macid))
               /\ \A i \in 1..Len(args) : children[2 + i].tag = args[i]

\* C8: a call of a command on the constructed client, getter or setter,
\* returning or raising, with or without a macid of its own, leaves the
\* attributes of the client as they were: address, port, credentials,
\* timeout, the stored MacId, and the others.
C8_CommandsLeaveClientUnchanged ==
    [][IsCall /\ state = "Ready"
          => /\ self'.addr = self.addr /\ self'.port = self.port
             /\ self'.username = self.username /\ self'.password = self.password
             /\ self'.timeout = self.timeout /\ self'.macid = self.macid
             /\ self' = self /\ state' = "Ready"]_vars

\* a setter was sent with a macid of its own to a client that had
\* discovered another MacId, and the device answered with success
C8_Witness ==
    /\ state = "Ready"
    /\ last.op = "set_time_source"
    /\ last.macid = CallerMacId
    /\ self.macid = DeviceMacId
    /\ last.err = ""
    /\ last.ret.t = "dict"

\* digit j (0 the lowest) of the 32-bit two's complement of the int n
Nibble32(n, j) ==
    LET uhi == IF n.hi < 0 THEN n.hi + Limb ELSE n.hi
    IN  IF j < 4 THEN (n.lo \div Pow2(4 * j)) % 16
        ELSE (uhi \div Pow2(4 * (j - 4))) % 16

\* C9: for n in the signed 32-bit range, _tohex(n) is "0x" and the eight
\* hex digits of n when n >= 0, of n + 2^32 when n < 0 (10 characters),
\* and _twos_comp of the number so written, with bits = 32, is n.
C9_ToHexTwosCompRoundTrip ==
    InInt32(hexio.n) =>
        /\ hexio.phase \in {"hex", "back"} =>
               /\ Len(hexio.s) = 10
               /\ SubSeq(hexio.s, 1, 2) = "0x"
               /\ \A j \in 0..7 :
                      CharAt(hexio.s, 10 - j) = HexChar(Nibble32(hexio.n, j))
        /\ hexio.phase = "back" => hexio.back = hexio.n

\* -2^31 was written as 0x80000000 and read back
C9_Witness ==
    /\ hexio.phase = "back"
    /\ hexio.n = PyInt(-32768, 0)
    /\ hexio.s = "0x80000000"
    /\ hexio.back = PyInt(-32768, 0)

\* C10: for a price p = k / 10^d above zero with d <= 6, set_price sends
\* Price and TrailingDigits with int(Price, 16) / 10^int(TrailingDigits, 16)
\* equal to p, that is int(Price, 16) * 10^d = k * 10^int(TrailingDigits, 16).
C10_PriceEncodingExact ==
    /\ last.op = "set_price"
    /\ last.arg.t = "float" /\ last.arg.sign > 0 /\ last.arg.k > 0 /\ last.arg.d <= 6
    /\ last.built # <<>>
    => LET children == last.built[1].children
           price == BigParseHex(children[3].text)
           digits == ParseHex(children[4].text).lo
       IN  /\ children[3].tag = "Price" /\ children[4].tag = "TrailingDigits"
           /\ TimesPow10[price, last.arg.d] = TimesPow10[BigOfNat[last.arg.k], digits]

\* the values under a key of a dict: the items of a list, or the one value
Entries(x) == IF x.t = "list" THEN {x.items[j] : j \in 1..Len(x.items)} ELSE {x}

OwnAttribKeys(e, o) ==
    \A k \in DOMAIN e.attrib :
        LET key == e.tag \o "-" \o k
        IN  /\ key \in DOMAIN o
            /\ IF \E i \in 1..Len(e.children) : e.children[i].tag = key
               THEN o[key].t = "list" /\ o[key].items[1] = PyStr(e.attrib[k])
               ELSE o[key] = PyStr(e.attrib[k])

\* o holds the attribute keys of e, and under the tag of each child of e
\* that has attributes or children a dict that does so for the child
RECURSIVE AttribKeysInOwnDict(_, _)
AttribKeysInOwnDict(e, o) ==
    /\ OwnAttribKeys(e, o)
    /\ \A i \in 1..Len(e.children) :
           LET c == e.children[i]
           IN  (Len(c.children) > 0 \/ DOMAIN c.attrib # {}) =>
                   /\ c.tag \in DOMAIN o
                   /\ \E x \in Entries(o[c.tag]) :
                          x.t = "dict" /\ AttribKeysInOwnDict(c, x.o)

ChildValue(c) ==
    IF Len(c.children) > 0 \/ DOMAIN c.attrib # {} THEN PyDict(_et2d(c)) ELSE c.text

\* the children of e with the tag tag, in document order
Occurrences(e, tag) == SelectSeq(e.children, LAMBDA c : c.tag = tag)

\* the dict o has, under each tag of the children of e, the list of the
\* values of the children with that tag, in document order, when there are
\* two or more of them, and the bare value of the child when there is one
RepeatedTagsAreLists(e, o) ==
    \A i \in 1..Len(e.children) :
        LET tag == e.children[i].tag
            occ == Occurrences(e, tag)
        IN  /\ tag \in DOMAIN o
            /\ IF Len(occ) >= 2
               THEN o[tag] = [t |-> "list",
                              items |-> [j \in 1..Len(occ) |-> ChildValue(occ[j])]]
               ELSE o[tag] = ChildValue(occ[1])

\* C12: for every element whose children include k >= 2 elements with the
\* same tag, adjacent or not, the dict of the element has under that tag a
\* list of exactly k values, one per occurrence, in document order; a tag
\* that occurs once has the bare value of its child.
C12_RepeatedTagsBecomeSequences ==
    (etio.phase = "dict" /\ etio.et.t = "Element") =>
        RepeatedTagsAreLists(etio.et, etio.d)

====
